---- MODULE Spec2Model ----
(***************************************************************************)
(* Liam robot lawn mower: the control loop of Liam.ino.                    *)
(*                                                                         *)
(* setup() runs once, then loop() runs for ever.  One execution of loop()  *)
(* is modelled as two steps, LoopPoll (debug poll, boundary poll, battery, *)
(* display, safety checks) and the state handler it dispatches to, with    *)
(* the boundary-wire interrupt updateBWF free to fire in between.          *)
(* `trace` is the sequence of the calls the current cycle has made to its  *)
(* collaborators (Mower, Sensor, Battery, Error, Compass, Display), in     *)
(* program order; a call that returns a value the code branches on is      *)
(* recorded with the value it returned.                                    *)
(***************************************************************************)
EXTENDS Integers, Sequences, FiniteSets, TLC

\* ----------------------------------------------------------------- bounds
\* millis() is followed up to MaxTime; no cycle starts after it.
MaxTime == 31000

\* ------------------------------------------------------------- constants
\* Mower states (Definition.h)
IDLE == "IDLE"
MOWING == "MOWING"
LAUNCHING == "LAUNCHING"
DOCKING == "DOCKING"
LOOKING_FOR_BWF == "LOOKING_FOR_BWF"
CHARGING == "CHARGING"
SETUP_DEBUG == "SETUP_DEBUG"
States == {IDLE, MOWING, LAUNCHING, DOCKING, LOOKING_FOR_BWF, CHARGING, SETUP_DEBUG}

\* ORIENTATION::LEFT is coil 0, the right coil is coil 1
LEFT == 0
RIGHT == 1
Coils == {LEFT, RIGHT}

\* Decoded classification of the selected coil
Classes == {"Inside", "Outside", "Unknown"}

\* Interval between the regular random turns (Definition.h)
TURN_INTERVAL == 15000
\* Quiet window after which the docking collision counter restarts
COLLISION_WINDOW == 10000
\* Number of collisions after which docking turns around the obstacle
COLLISION_LIMIT == 3
\* Interval of the right-sensor check while docking
ALL_OUTSIDE_INTERVAL == 500
\* Time without left-outside after which docking gives up
OUTSIDE_TIMEOUT == 10000
\* Time without charging contact after which charging re-docks
CONTACT_TIMEOUT == 20000
\* Interval of the display refresh
DISPLAY_INTERVAL == 5000

\* Time one execution of loop() takes on top of the delay() calls it makes
\* (the printed looptime; the turns and the sensor selection block for
\* seconds): a cycle inside the 10 s windows and one that crosses them.
LoopTimes == {7000, 11000}

\* The builds: which optional parts are compiled in.
\*   compass   __MS9150__ / __MS5883L__ / __ADXL345__ (checkIfFlipped)
\*   lift      __Lift_Sensor__                        (checkIfLifted)
\*   clock     __RTC_CLOCK__   (the Clock object exists)
\*   gate      __RTC__CLOCK__  (doCharging consults Clock.timeToCut())
\* A build with gate and without clock does not compile.  The builds
\* followed: the plain one, the one with both safety sensors, and the two
\* with the clock.
Builds ==
  { b \in [compass : BOOLEAN, lift : BOOLEAN, clock : BOOLEAN, gate : BOOLEAN] :
      /\ b.gate => b.clock
      /\ b.compass = b.lift
      /\ b.compass => ~b.clock }

VARIABLES
  build,                \* the compile-time configuration
  pc,                   \* "setup", "loop" (top of loop()), "dispatch" (at the switch)
  state,                \* int state
  now,                  \* millis()
  time_at_turning,      \* long time_at_turning
  sensorOutside,        \* bool sensorOutside[2]
  signal,               \* Sensor's decoded classification of the selected coil
  collisionCount,       \* doDocking: static int collisionCount
  lastCollision,        \* doDocking: static long lastCollision
  lastAllOutsideCheck,  \* doDocking: static long lastAllOutsideCheck
  lastOutside,          \* doDocking: static long lastOutside
  lastContact,          \* doCharging: static long lastContact
  lastDisplayUpdate,    \* loop: static long lastDisplayUpdate
  cutterOn,             \* the cutter's last command was startCutter
  handled,              \* the state the cycle was dispatched in, "none" if not dispatched
  trace,                \* the calls of the current cycle, in order
  \* History of the run, read by the properties only:
  enteredAt,            \* millis() when `state` last changed
  enteredBy,            \* what changed it: "setup", "debug" or the handler's state
  turningBy,            \* the state whose handler last set time_at_turning, "init" if none
  lostSince,            \* millis() of the first of the latest polls that all found no
                        \* signal on either coil, -1 if a signal was decoded since
  tilted                \* ERROR_TILT has been flagged

vars == << build, pc, state, now, time_at_turning, sensorOutside,
           signal, collisionCount, lastCollision, lastAllOutsideCheck, lastOutside,
           lastContact, lastDisplayUpdate, cutterOn, handled, trace,
           enteredAt, enteredBy, turningBy, lostSince, tilted >>

\* ------------------------------------------------------------- trace helpers
Has(tr, e) == \E i \in 1..Len(tr) : tr[i] = e

\* position of the first e in tr, 0 if none
First(tr, e) == IF Has(tr, e) THEN CHOOSE i \in 1..Len(tr) : tr[i] = e /\ \A j \in 1..(i-1) : tr[j] # e
                ELSE 0

\* position of the last e in tr, 0 if none
Last(tr, e) == IF Has(tr, e) THEN CHOOSE i \in 1..Len(tr) : tr[i] = e /\ \A j \in (i+1)..Len(tr) : tr[j] # e
               ELSE 0

Count(tr, e) == Cardinality({i \in 1..Len(tr) : tr[i] = e})

\* Commands of the CONTROLLER that set the wheel motors
DriveCmds == {"Mower.runForward", "Mower.runBackward", "Mower.runForwardOverTime",
              "Mower.turnRight", "Mower.turnLeft",
              "Mower.turnToReleaseRight=0", "Mower.turnToReleaseRight=err",
              "Mower.turnToReleaseLeft=0", "Mower.turnToReleaseLeft=err",
              "Mower.GoBackwardUntilInside=0", "Mower.GoBackwardUntilInside=err",
              "Mower.turnIfObstacle", "Mower.randomTurn", "Mower.adjustMotorSpeeds",
              "Mower.compensateSpeedToCutterLoad", "Mower.compensateSpeedToCompassHeading"}
WheelCmds == DriveCmds \cup {"Mower.stop"}
CutterCmds == {"Mower.startCutter", "Mower.stopCutter"}
FlagEvents == {"Error.flag(ERROR_TILT)", "Error.flag(ERROR_LIFT)", "Error.flag(err)"}
HandlerCalls == {"delay(100)", "doMowing", "doLaunching", "doDocking", "doLookForBWF", "doCharging"}

\* CUTTERMOTOR: the cutter runs after startCutter until stopCutter
RECURSIVE CutterAfter(_, _)
CutterAfter(on, tr) ==
  IF tr = << >> THEN on
  ELSE CutterAfter(IF Head(tr) = "Mower.startCutter" THEN TRUE
                   ELSE IF Head(tr) = "Mower.stopCutter" THEN FALSE ELSE on, Tail(tr))

\* A call recorded with the boolean it returned
Ret(call, b) == << call \o (IF b THEN "=TRUE" ELSE "=FALSE") >>

\* ERROR::flag(code): fire-and-forget; it records the code and returns, and
\* the caller goes on with its next statement.
ErrorFlag(code) == << "Error.flag(" \o code \o ")" >>

\* BWFSENSOR::isOutOfBounds: true iff the classification is Outside
isOutOfBounds(c) == c = "Outside"

\* SETUPDEBUG::tryEnterSetupDebugMode(currentState): outside debug mode it
\* returns currentState, or SETUP_DEBUG when the trigger was received; in
\* debug mode it stays, or leaves to a state the operator chose.
DebugResults(cur) == IF cur = SETUP_DEBUG THEN States ELSE {cur, SETUP_DEBUG}

\* The call, recorded with the state it returned
DebugCall(r) == "tryEnterSetupDebugMode=" \o r
DebugCalls == {DebugCall(r) : r \in States}

\* ------------------------------------------------------------------- Init
Init ==
  /\ build \in Builds
  /\ pc = "setup"
  /\ state \in States
  /\ now = 0
  /\ time_at_turning = 0
  /\ sensorOutside = [i \in Coils |-> FALSE]
  /\ signal = "Unknown"
  /\ collisionCount = 0
  /\ lastCollision = 0
  /\ lastAllOutsideCheck = 0
  /\ lastOutside = 0
  /\ lastContact = 0
  /\ lastDisplayUpdate = 0
  /\ cutterOn \in BOOLEAN
  /\ handled = "none"
  /\ trace = << >>
  /\ enteredAt = 0
  /\ enteredBy = "setup"
  /\ turningBy = "init"
  /\ lostSince = -1
  /\ tilted = FALSE

\* ------------------------------------------------------------------ setup
SetupTrace(r, charging) ==
  << "CutterMotor.initialize", "Battery.resetVoltage", "Compass.initialize",
     "Sensor.select", "delay(5000)", DebugCall(r) >>
  \o (IF r # SETUP_DEBUG
      THEN Ret("Battery.isBeingCharged", charging)
           \o (IF charging THEN << "Mower.stopCutter" >> ELSE << >>)
      ELSE << >>)

\* setup() that keeps what the debug collaborator returned
SetupState_NoOverride(r, charging) ==
  IF charging THEN CHARGING ELSE r

SetupState(r, charging) ==
  IF r # SETUP_DEBUG THEN (IF charging THEN CHARGING ELSE MOWING) ELSE r

\* CutterMotor.initialize() turns the cutter off; the 5 s of the version
\* display pass before the state is resolved.
Setup ==
  /\ pc = "setup"
  /\ \E r \in DebugResults(IDLE), charging \in BOOLEAN :
       /\ (r = SETUP_DEBUG => ~charging)
       /\ state' = SetupState(r, charging)
       /\ trace' = SetupTrace(r, charging)
  /\ now' = now + 5000
  /\ cutterOn' = FALSE
  /\ pc' = "loop"
  /\ enteredAt' = now + 5000
  /\ enteredBy' = "setup"
  /\ UNCHANGED << build, time_at_turning, sensorOutside, signal, collisionCount,
                  lastCollision, lastAllOutsideCheck, lastOutside, lastContact,
                  lastDisplayUpdate, handled, turningBy, lostSince, tilted >>

\* ------------------------------------------------------------- updateBWF
\* The pulse interrupt: Sensor.readSensor() decodes the pulse of the selected
\* coil.  It is followed between the poll and the handler: what it decodes
\* earlier is replaced when the poll selects the coils again, and the one
\* handler that reads the sensor itself (doCharging) does so after it.
UpdateBWF ==
  /\ pc = "dispatch"
  /\ \E c \in {"Inside", "Outside"} :
       /\ c # signal
       /\ signal' = c
  /\ lostSince' = -1
  /\ UNCHANGED << build, pc, state, now, time_at_turning, sensorOutside,
                  collisionCount, lastCollision, lastAllOutsideCheck, lastOutside,
                  lastContact, lastDisplayUpdate, cutterOn, handled, trace,
                  enteredAt, enteredBy, turningBy, tilted >>

\* ----------------------------------------------------------- safety checks
\* checkIfFlipped that flags the tilt and leaves the wheel motors running
checkIfFlipped_NoStop(b, flipped) ==
  << "checkIfFlipped" >>
  \o (IF b.compass
      THEN Ret("Mower.hasFlipped", flipped)
           \o (IF flipped
               THEN << "Mower.stopCutter" >> \o ErrorFlag("ERROR_TILT")
               ELSE << >>)
      ELSE << >>)

checkIfFlipped(b, flipped) ==
  << "checkIfFlipped" >>
  \o (IF b.compass
      THEN Ret("Mower.hasFlipped", flipped)
           \o (IF flipped
               THEN << "Mower.stopCutter", "Mower.stop" >> \o ErrorFlag("ERROR_TILT")
               ELSE << >>)
      ELSE << >>)

checkIfLifted(b, lifted, still) ==
  << "checkIfLifted" >>
  \o (IF b.lift
      THEN Ret("Mower.isLifted", lifted)
           \o (IF lifted
               THEN << "Mower.stopCutter", "Mower.stop", "Mower.runBackward", "delay(2000)" >>
                    \o Ret("Mower.isLifted", still)
                    \o (IF still THEN ErrorFlag("ERROR_LIFT") ELSE << >>)
                    \o << "Mower.randomTurn" >>
               ELSE << >>)
      ELSE << >>)

\* ------------------------------------------------------- loop(), first half
\* loop() that runs the lift check only
LoopPollTrace_NoFlipCheck(b, r, t, flipped, lifted, still) ==
  << DebugCall(r),
     "Sensor.select", "Sensor.isOutOfBounds", "Sensor.select", "Sensor.isOutOfBounds",
     "Battery.updateVoltage" >>
  \o (IF t - lastDisplayUpdate > DISPLAY_INTERVAL THEN << "Display.update" >> ELSE << >>)
  \o checkIfLifted(b, lifted, still)

\* The trace of loop() up to the switch, for a cycle the debug collaborator
\* does not take.
LoopPollTrace(b, r, t, flipped, lifted, still) ==
  << DebugCall(r),
     "Sensor.select", "Sensor.isOutOfBounds", "Sensor.select", "Sensor.isOutOfBounds",
     "Battery.updateVoltage" >>
  \o (IF t - lastDisplayUpdate > DISPLAY_INTERVAL THEN << "Display.update" >> ELSE << >>)
  \o checkIfFlipped(b, flipped)
  \o checkIfLifted(b, lifted, still)

\* loop() without the return after the debug poll
LoopReturnsEarly_Never(r) == FALSE

\* if((state = SetupAndDebug.tryEnterSetupDebugMode(state)) == SETUP_DEBUG) return;
LoopReturnsEarly(r) == r = SETUP_DEBUG

LoopPoll ==
  /\ pc = "loop"
  /\ \E dt \in LoopTimes, r \in DebugResults(state) :
       /\ now + dt <= MaxTime
       /\ state' = r
       /\ enteredAt' = IF r # state THEN now ELSE enteredAt
       /\ enteredBy' = IF r # state THEN "debug" ELSE enteredBy
       /\ IF LoopReturnsEarly(r)
          THEN /\ trace' = << DebugCall(r) >>
               /\ now' = now + dt
               /\ handled' = "none"
               /\ UNCHANGED << pc, sensorOutside, signal, lastDisplayUpdate,
                               cutterOn, lostSince, tilted >>
          ELSE \E c0 \in Classes, c1 \in Classes,
                  flipped \in (IF build.compass THEN BOOLEAN ELSE {FALSE}),
                  lifted \in (IF build.lift THEN BOOLEAN ELSE {FALSE}),
                  still \in (IF build.lift THEN BOOLEAN ELSE {FALSE}) :
                 LET t  == now + dt
                     tr == LoopPollTrace(build, r, t, flipped, lifted, still)
                 IN  /\ (~lifted => ~still)
                     /\ sensorOutside' = [i \in Coils |-> isOutOfBounds(IF i = LEFT THEN c0 ELSE c1)]
                     /\ signal' = c1
                     /\ lastDisplayUpdate' = IF t - lastDisplayUpdate > DISPLAY_INTERVAL
                                             THEN t ELSE lastDisplayUpdate
                     /\ now' = IF lifted THEN t + 2000 ELSE t
                     /\ trace' = tr
                     /\ cutterOn' = CutterAfter(cutterOn, tr)
                     /\ handled' = "none"
                     /\ pc' = "dispatch"
                     /\ lostSince' = IF c0 = "Unknown" /\ c1 = "Unknown"
                                     THEN (IF lostSince = -1 THEN t ELSE lostSince)
                                     ELSE -1
                     /\ tilted' = (tilted \/ flipped)
  /\ UNCHANGED << build, time_at_turning, collisionCount, lastCollision,
                  lastAllOutsideCheck, lastOutside, lastContact, turningBy >>

\* ------------------------------------------------------------- randomTurn
\* randomTurn(goBack); `right` is the outcome of random(0, 100) % 2 == 0.
\* The trace, and the time at which it sets time_at_turning when entered at t.
randomTurn(goBack, right) ==
  (IF goBack THEN << "Mower.runBackward", "delay(2000)" >> ELSE << >>)
  \o << IF right THEN "Mower.turnRight" ELSE "Mower.turnLeft",
        "Compass.setNewTargetHeading", "Mower.runForward" >>

randomTurnEnd(goBack, t) == IF goBack THEN t + 2000 ELSE t

\* A call recorded with the error code it returned (0 or not)
RetErr(call, failed) == << call \o (IF failed THEN "=err" ELSE "=0") >>

\* The results of the maneuvers of one sensor's escape in doMowing
Errs == [back : BOOLEAN, turn1 : BOOLEAN, turn2 : BOOLEAN]
NoErrs == [back |-> FALSE, turn1 |-> FALSE, turn2 |-> FALSE]

\* Common effect of a state handler with result h on the loop's variables
Finish(h) ==
  /\ state' = h.st
  /\ trace' = trace \o h.tr
  /\ now' = h.t
  /\ cutterOn' = CutterAfter(cutterOn, h.tr)
  /\ handled' = state
  /\ pc' = "loop"
  /\ enteredAt' = IF h.st # state THEN h.t ELSE enteredAt
  /\ enteredBy' = IF h.st # state THEN state ELSE enteredBy
  /\ UNCHANGED << build, sensorOutside, lastDisplayUpdate, lostSince, tilted >>

\* ------------------------------------------------------------------- IDLE
DoIdle ==
  /\ pc = "dispatch"
  /\ state = IDLE
  /\ Finish([st |-> state, tr |-> << "delay(100)" >>, t |-> now + 100])
  /\ UNCHANGED << time_at_turning, signal, collisionCount, lastCollision,
                  lastAllOutsideCheck, lastOutside, lastContact, turningBy >>

\* ----------------------------------------------------------------- MOWING
ReleaseTurn(i) == IF i = LEFT THEN "Mower.turnToReleaseRight" ELSE "Mower.turnToReleaseLeft"

\* The for loop's body that reports the first failed turn before it retries
Release_FlagFirst(i, e) ==
  << "Sensor.select", "Mower.stop" >>
  \o RetErr("Mower.GoBackwardUntilInside", e.back)
  \o (IF e.back THEN ErrorFlag("err") ELSE << >>)
  \o RetErr(ReleaseTurn(i), e.turn1)
  \o (IF e.turn1
      THEN ErrorFlag("err")
           \o << "Mower.runBackward", "delay(1000)", "Mower.stop" >>
           \o RetErr(ReleaseTurn(i), e.turn2)
      ELSE << >>)
  \o << "Compass.setNewTargetHeading" >>

\* The body of doMowing's for loop for a sensor that is outside
Release(i, e) ==
  << "Sensor.select", "Mower.stop" >>
  \o RetErr("Mower.GoBackwardUntilInside", e.back)
  \o (IF e.back THEN ErrorFlag("err") ELSE << >>)
  \o RetErr(ReleaseTurn(i), e.turn1)
  \o (IF e.turn1
      THEN << "Mower.runBackward", "delay(1000)", "Mower.stop" >>
           \o RetErr(ReleaseTurn(i), e.turn2)
           \o (IF e.turn2 THEN ErrorFlag("err") ELSE << >>)
      ELSE << >>)
  \o << "Compass.setNewTargetHeading" >>

\* One iteration of the for loop, on the accumulated trace, time,
\* time_at_turning and sensor selection
MowStep(i, e, a) ==
  IF ~sensorOutside[i] THEN a
  ELSE LET t == IF e.turn1 THEN a.t + 1000 ELSE a.t
       IN  [tr |-> a.tr \o Release(i, e), t |-> t, tat |-> t, sig |-> "Unknown"]

doMowing(must, right, e0, e1) ==
  IF must
  THEN [st |-> LOOKING_FOR_BWF, tr |-> << "doMowing" >> \o Ret("Battery.mustCharge", TRUE),
        t |-> now, tat |-> time_at_turning, sig |-> signal]
  ELSE LET due == (now - time_at_turning) > TURN_INTERVAL
           a0  == [tr  |-> << "doMowing" >> \o Ret("Battery.mustCharge", FALSE)
                           \o (IF due THEN randomTurn(TRUE, right) ELSE << >>),
                   t   |-> IF due THEN randomTurnEnd(TRUE, now) ELSE now,
                   tat |-> IF due THEN randomTurnEnd(TRUE, now) ELSE time_at_turning,
                   sig |-> signal]
           a1  == MowStep(LEFT, e0, a0)
           a2  == MowStep(RIGHT, e1, a1)
       IN  [st |-> MOWING,
            tr |-> a2.tr \o << "Mower.turnIfObstacle", "Mower.startCutter",
                               "Mower.runForwardOverTime", "Mower.compensateSpeedToCutterLoad",
                               "Compass.updateHeading", "Mower.compensateSpeedToCompassHeading" >>,
            t |-> a2.t, tat |-> a2.tat, sig |-> a2.sig]

DoMowing ==
  /\ pc = "dispatch"
  /\ state = MOWING
  /\ \E must \in BOOLEAN, right \in BOOLEAN, e0 \in Errs, e1 \in Errs :
       /\ (must \/ ~sensorOutside[LEFT]) => e0 = NoErrs
       /\ (must \/ ~sensorOutside[RIGHT]) => e1 = NoErrs
       /\ ~e0.turn1 => ~e0.turn2
       /\ ~e1.turn1 => ~e1.turn2
       /\ (must \/ (now - time_at_turning) <= TURN_INTERVAL) => right
       /\ LET h == doMowing(must, right, e0, e1)
          IN  /\ Finish(h)
              /\ time_at_turning' = h.tat
              /\ turningBy' = IF h.tat # time_at_turning THEN state ELSE turningBy
              /\ signal' = h.sig
  /\ UNCHANGED << collisionCount, lastCollision, lastAllOutsideCheck, lastOutside, lastContact >>

\* -------------------------------------------------------------- LAUNCHING
\* doLaunching whose random turn reverses once more
doLaunching_GoBack(right) ==
  [st |-> MOWING,
   tr |-> << "doLaunching", "Mower.runBackward", "delay(5000)", "Mower.stop" >>
          \o randomTurn(TRUE, right) \o << "Battery.resetVoltage" >>,
   t |-> now + 7000, tat |-> randomTurnEnd(TRUE, now + 5000)]

doLaunching(right) ==
  [st |-> MOWING,
   tr |-> << "doLaunching", "Mower.runBackward", "delay(5000)", "Mower.stop" >>
          \o randomTurn(FALSE, right) \o << "Battery.resetVoltage" >>,
   t |-> now + 5000, tat |-> randomTurnEnd(FALSE, now + 5000)]

DoLaunching ==
  /\ pc = "dispatch"
  /\ state = LAUNCHING
  /\ \E right \in BOOLEAN :
       LET h == doLaunching(right)
       IN  /\ Finish(h)
           /\ time_at_turning' = h.tat
           /\ turningBy' = IF h.tat # time_at_turning THEN state ELSE turningBy
  /\ UNCHANGED << signal, collisionCount, lastCollision, lastAllOutsideCheck,
                  lastOutside, lastContact >>

\* -------------------------------------------------------- LOOKING_FOR_BWF
\* doLookForBWF that leaves the cutter as doMowing left it
doLookForBWF_NoStopCutter(right) ==
  IF sensorOutside[LEFT]
  THEN [st |-> DOCKING, tr |-> << "doLookForBWF" >>,
        t |-> now, tat |-> time_at_turning]
  ELSE LET due == (now - time_at_turning) > TURN_INTERVAL
       IN  [st |-> LOOKING_FOR_BWF,
            tr |-> << "doLookForBWF" >>
                   \o (IF due THEN randomTurn(TRUE, right) ELSE << >>)
                   \o << "Mower.runForwardOverTime", "Mower.turnIfObstacle" >>,
            t |-> IF due THEN randomTurnEnd(TRUE, now) ELSE now,
            tat |-> IF due THEN randomTurnEnd(TRUE, now) ELSE time_at_turning]

\* doLookForBWF that asks the sensor instead of the cycle's snapshot
doLookForBWF_Live(right) ==
  IF signal = "Outside"
  THEN [st |-> DOCKING, tr |-> << "doLookForBWF", "Mower.stopCutter" >>,
        t |-> now, tat |-> time_at_turning]
  ELSE LET due == (now - time_at_turning) > TURN_INTERVAL
       IN  [st |-> LOOKING_FOR_BWF,
            tr |-> << "doLookForBWF", "Mower.stopCutter" >>
                   \o (IF due THEN randomTurn(TRUE, right) ELSE << >>)
                   \o << "Mower.runForwardOverTime", "Mower.turnIfObstacle" >>,
            t |-> IF due THEN randomTurnEnd(TRUE, now) ELSE now,
            tat |-> IF due THEN randomTurnEnd(TRUE, now) ELSE time_at_turning]

\* doLookForBWF that looks at the boundary only after the regular turn
doLookForBWF_TurnFirst(right) ==
  LET due == (now - time_at_turning) > TURN_INTERVAL
      pre == << "doLookForBWF", "Mower.stopCutter" >>
             \o (IF due THEN randomTurn(TRUE, right) ELSE << >>)
      t   == IF due THEN randomTurnEnd(TRUE, now) ELSE now
      tat == IF due THEN randomTurnEnd(TRUE, now) ELSE time_at_turning
  IN  IF sensorOutside[LEFT]
      THEN [st |-> DOCKING, tr |-> pre, t |-> t, tat |-> tat]
      ELSE [st |-> LOOKING_FOR_BWF,
            tr |-> pre \o << "Mower.runForwardOverTime", "Mower.turnIfObstacle" >>,
            t |-> t, tat |-> tat]

doLookForBWF(right) ==
  IF sensorOutside[LEFT]
  THEN [st |-> DOCKING, tr |-> << "doLookForBWF", "Mower.stopCutter" >>,
        t |-> now, tat |-> time_at_turning]
  ELSE LET due == (now - time_at_turning) > TURN_INTERVAL
       IN  [st |-> LOOKING_FOR_BWF,
            tr |-> << "doLookForBWF", "Mower.stopCutter" >>
                   \o (IF due THEN randomTurn(TRUE, right) ELSE << >>)
                   \o << "Mower.runForwardOverTime", "Mower.turnIfObstacle" >>,
            t |-> IF due THEN randomTurnEnd(TRUE, now) ELSE now,
            tat |-> IF due THEN randomTurnEnd(TRUE, now) ELSE time_at_turning]

DoLookForBWF ==
  /\ pc = "dispatch"
  /\ state = LOOKING_FOR_BWF
  /\ \E right \in BOOLEAN :
       /\ (now - time_at_turning) <= TURN_INTERVAL => right
       /\ LET h == doLookForBWF(right)
          IN  /\ Finish(h)
              /\ time_at_turning' = h.tat
              /\ turningBy' = IF h.tat # time_at_turning THEN state ELSE turningBy
  /\ UNCHANGED << signal, collisionCount, lastCollision, lastAllOutsideCheck,
                  lastOutside, lastContact >>

\* ---------------------------------------------------------------- DOCKING
\* doDocking with the results ch1, ch2 of the two Battery.isBeingCharged()
\* calls and ovl of Mower.wheelsAreOverloaded().
\* The part after the collision block, entered at time t with lastOutside lo
DockingTail(pre, t, lo, cc, lc) ==
  LET check == t - lastAllOutsideCheck > ALL_OUTSIDE_INTERVAL
      turn  == check /\ sensorOutside[RIGHT]
      t1    == IF turn THEN t + 700 ELSE t
      tr1   == pre \o (IF turn
                       THEN << "Mower.stop", "Mower.runBackward", "delay(700)", "Mower.stop",
                               "Mower.turnRight", "Mower.stop", "Mower.runForward" >>
                       ELSE << >>)
      laoc  == IF check THEN t1 ELSE lastAllOutsideCheck
  IN  IF t1 - lo > OUTSIDE_TIMEOUT
      THEN [st |-> LOOKING_FOR_BWF, tr |-> tr1 \o << "Mower.stop", "Mower.turnLeft" >>,
            t |-> t1, cc |-> cc, lc |-> lc, laoc |-> laoc, lo |-> lo,
            sig |-> signal]
      ELSE [st |-> DOCKING, tr |-> tr1 \o << "Sensor.select", "Mower.adjustMotorSpeeds" >>,
            t |-> t1, cc |-> cc, lc |-> lc, laoc |-> laoc, lo |-> lo,
            sig |-> "Unknown"]

\* The collision counter after one more collision at time t
CountCollision(t) ==
  (IF t - lastCollision > COLLISION_WINDOW THEN 0 ELSE collisionCount) + 1

\* The charging branch that backs off the charger before it stops
DockingCharged_BackOff(pre, t, lo, cc, lc) ==
  [st |-> CHARGING, tr |-> pre \o << "Mower.runBackward", "Mower.stop" >>, t |-> t,
   cc |-> cc, lc |-> lc, laoc |-> lastAllOutsideCheck, lo |-> lo, sig |-> signal]

\* The branch taken when Battery.isBeingCharged() returned true at time t
DockingCharged(pre, t, lo, cc, lc) ==
  [st |-> CHARGING, tr |-> pre \o << "Mower.stop" >>, t |-> t,
   cc |-> cc, lc |-> lc, laoc |-> lastAllOutsideCheck, lo |-> lo, sig |-> signal]

\* The branch taken after the third collision in a row, backed off at time t
DockingEscape(pre, t, lc) ==
  [st |-> DOCKING,
   tr |-> pre \o << "Mower.turnRight", "Mower.stop", "Mower.runForward" >>,
   t |-> t, cc |-> 0, lc |-> lc, laoc |-> lastAllOutsideCheck, lo |-> t, sig |-> signal]

doDocking(ch1, ovl, ch2) ==
  LET lo  == IF sensorOutside[LEFT] THEN now ELSE lastOutside
      pre == << "doDocking", "Mower.stopCutter" >> \o Ret("Battery.isBeingCharged", ch1)
  IN  IF ch1
      THEN DockingCharged(pre, now, lo, collisionCount, lastCollision)
      ELSE IF ~ovl
      THEN DockingTail(pre \o Ret("Mower.wheelsAreOverloaded", FALSE), now, lo,
                       collisionCount, lastCollision)
      ELSE LET cc   == CountCollision(now)
               pre1 == pre \o Ret("Mower.wheelsAreOverloaded", TRUE) \o << "delay(1000)" >>
                           \o Ret("Battery.isBeingCharged", ch2)
               pre2 == pre1 \o << "Mower.runBackward", "delay(1300)" >>
           IN  IF ch2
               THEN DockingCharged(pre1, now + 1000, lo, cc, now)
               ELSE IF cc = COLLISION_LIMIT
               THEN DockingEscape(pre2, now + 2300, now)
               ELSE DockingTail(pre2, now + 2300, lo, cc, now)

DoDocking ==
  /\ pc = "dispatch"
  /\ state = DOCKING
  /\ \E ch1 \in BOOLEAN, ovl \in BOOLEAN, ch2 \in BOOLEAN :
       /\ ch1 => ~ovl
       /\ ~ovl => ~ch2
       /\ LET h == doDocking(ch1, ovl, ch2)
          IN  /\ Finish(h)
              /\ collisionCount' = h.cc
              /\ lastCollision' = h.lc
              /\ lastAllOutsideCheck' = h.laoc
              /\ lastOutside' = h.lo
              /\ signal' = h.sig
  /\ UNCHANGED << time_at_turning, lastContact, turningBy >>

\* --------------------------------------------------------------- CHARGING
\* doCharging with the results of Battery.isBeingCharged(),
\* Battery.isFullyCharged() and Clock.timeToCut(); sig is what the sensor
\* has decoded when Sensor.isInside() || Sensor.isOutside() is evaluated.
\* doCharging with a slip: the contact timer kept after the nudge, MOWING
\* for LAUNCHING, or the nudge without its last stop
doCharging_Base(b, charging, full, ttc, sig, keepTimer, direct, lastStop) ==
  LET lc1   == IF charging THEN now ELSE lastContact
      nudge == now - lc1 > CONTACT_TIMEOUT
      t     == IF nudge THEN now + 2500 ELSE now
      gated == full /\ (b.gate => ttc)
      go    == gated /\ sig # "Unknown"
  IN  [st |-> IF go THEN (IF direct THEN MOWING ELSE LAUNCHING) ELSE CHARGING,
       tr |-> << "doCharging", "Mower.stop", "Mower.stopCutter" >>
              \o Ret("Battery.isBeingCharged", charging)
              \o (IF nudge
                  THEN << "Mower.runBackward", "delay(500)", "Mower.runForward",
                          "delay(2000)" >> \o (IF lastStop THEN << "Mower.stop" >> ELSE << >>)
                  ELSE << >>)
              \o Ret("Battery.isFullyCharged", full)
              \o (IF full /\ b.gate THEN Ret("Clock.timeToCut", ttc) ELSE << >>)
              \o (IF gated THEN Ret("Sensor.isInside||isOutside", sig # "Unknown") ELSE << >>),
       t |-> t,
       lc |-> IF nudge /\ ~keepTimer THEN t ELSE lc1]

\* doCharging that restarts the contact timer only when contact is made
doCharging_KeepTimer(b, charging, full, ttc, sig) ==
  doCharging_Base(b, charging, full, ttc, sig, TRUE, FALSE, TRUE)

\* doCharging that goes straight to mowing
doCharging_LaunchDirect(b, charging, full, ttc, sig) ==
  doCharging_Base(b, charging, full, ttc, sig, FALSE, TRUE, TRUE)

\* doCharging whose nudge leaves the wheels running forward
doCharging_NoFinalStop(b, charging, full, ttc, sig) ==
  doCharging_Base(b, charging, full, ttc, sig, FALSE, FALSE, FALSE)

doCharging(b, charging, full, ttc, sig) ==
  LET lc1   == IF charging THEN now ELSE lastContact
      nudge == now - lc1 > CONTACT_TIMEOUT
      t     == IF nudge THEN now + 2500 ELSE now
      gated == full /\ (b.gate => ttc)
      go    == gated /\ sig # "Unknown"
  IN  [st |-> IF go THEN LAUNCHING ELSE CHARGING,
       tr |-> << "doCharging", "Mower.stop", "Mower.stopCutter" >>
              \o Ret("Battery.isBeingCharged", charging)
              \o (IF nudge
                  THEN << "Mower.runBackward", "delay(500)", "Mower.runForward",
                          "delay(2000)", "Mower.stop" >>
                  ELSE << >>)
              \o Ret("Battery.isFullyCharged", full)
              \o (IF full /\ b.gate THEN Ret("Clock.timeToCut", ttc) ELSE << >>)
              \o (IF gated THEN Ret("Sensor.isInside||isOutside", sig # "Unknown") ELSE << >>),
       t |-> t,
       lc |-> IF nudge THEN t ELSE lc1]

DoCharging ==
  /\ pc = "dispatch"
  /\ state = CHARGING
  /\ \E charging \in BOOLEAN, full \in BOOLEAN, ttc \in BOOLEAN :
       /\ ~(full /\ build.gate) => ttc
       /\ LET h == doCharging(build, charging, full, ttc, signal)
          IN  /\ Finish(h)
              /\ lastContact' = h.lc
  /\ UNCHANGED << time_at_turning, signal, collisionCount, lastCollision,
                  lastAllOutsideCheck, lastOutside, turningBy >>

\* ------------------------------------------------------------------- Next
Next ==
  \/ Setup
  \/ UpdateBWF
  \/ LoopPoll
  \/ DoIdle
  \/ DoMowing
  \/ DoLaunching
  \/ DoDocking
  \/ DoLookForBWF
  \/ DoCharging

Spec == Init /\ [][Next]_vars

\* ======================================================================
\* Properties
\* ======================================================================
ActiveStates == {MOWING, LAUNCHING, DOCKING, LOOKING_FOR_BWF, CHARGING}

\* setup() has just returned
SetupDone == pc = "loop" /\ trace # << >> /\ trace[1] = "CutterMotor.initialize"
\* trace is the trace of an execution of loop()
LoopRan == trace # << >> /\ trace[1] \in DebugCalls
\* an execution of loop() has returned from the handler of state st
CycleEnd(st) == pc = "loop" /\ handled = st

\* position of the handler's call in the trace of a cycle, 0 if none
HandlerPos(tr) ==
  IF \E i \in 1..Len(tr) : tr[i] \in HandlerCalls
  THEN CHOOSE i \in 1..Len(tr) : tr[i] \in HandlerCalls /\ \A j \in 1..(i-1) : tr[j] \notin HandlerCalls
  ELSE 0
\* what the handler did: the trace after the handler's call
HandlerPart(tr) == IF HandlerPos(tr) = 0 THEN << >> ELSE SubSeq(tr, HandlerPos(tr) + 1, Len(tr))

\* Motor commands, error flags and the state handler: what a cycle does,
\* as opposed to what it reads (sensor poll, battery voltage) and displays
Acts == WheelCmds \cup CutterCmds \cup FlagEvents \cup HandlerCalls

\* ---------------------------------------------------------------------- C1
\* C1: in every cycle run in an active state in which Mower.hasFlipped()
\* returns true, Mower.stopCutter, Mower.stop and Error.flag(ERROR_TILT) are
\* the calls that follow it, and no motor command, error flag or state
\* handler precedes them in that cycle.
C1_TiltStopsFirst ==
  (LoopRan /\ Has(trace, "Mower.hasFlipped=TRUE")
     /\ (IF pc = "dispatch" THEN state ELSE handled) \in ActiveStates)
  => LET i == First(trace, "Mower.hasFlipped=TRUE")
     IN  /\ Len(trace) >= i + 3
         /\ SubSeq(trace, i + 1, i + 3)
              = << "Mower.stopCutter", "Mower.stop", "Error.flag(ERROR_TILT)" >>
         /\ \A j \in 1..i : trace[j] \notin Acts

\* A Mowing cycle in which the tilt was seen, and the handler ran after it
C1_Witness ==
  /\ CycleEnd(MOWING)
  /\ Has(trace, "Mower.hasFlipped=TRUE")
  /\ Has(trace, "Mower.startCutter")

\* ---------------------------------------------------------------------- C2
\* C2 as stated: no cycle ends with the state LOOKING_FOR_BWF and the cutter
\* still commanded on.
C2_CutterOffOnTransition ==
  (pc = "loop" /\ handled # "none" /\ state = LOOKING_FOR_BWF) => ~cutterOn

\* C2 amended: when Battery.mustCharge() is true doMowing sets the state to
\* LOOKING_FOR_BWF and does nothing else (the cutter keeps running); it is
\* doLookForBWF, in the next cycle dispatched in LOOKING_FOR_BWF, that stops
\* the cutter, as its first command, so that every cycle dispatched in
\* LOOKING_FOR_BWF ends with the cutter commanded off.
C2_CutterOffNextCycle ==
  /\ (CycleEnd(MOWING) /\ Has(trace, "Battery.mustCharge=TRUE"))
       => /\ state = LOOKING_FOR_BWF
          /\ HandlerPart(trace) = << "Battery.mustCharge=TRUE" >>
  /\ CycleEnd(LOOKING_FOR_BWF)
       => /\ ~cutterOn
          /\ Len(HandlerPart(trace)) >= 1
          /\ HandlerPart(trace)[1] = "Mower.stopCutter"

\* The cycle that leaves Mowing, with the cutter still running
C2_Witness ==
  /\ CycleEnd(MOWING)
  /\ Has(trace, "Battery.mustCharge=TRUE")
  /\ state = LOOKING_FOR_BWF
  /\ cutterOn

\* ---------------------------------------------------------------------- C3
\* C3: a cycle dispatched in LOOKING_FOR_BWF with sensorOutside[LEFT] set
\* ends in DOCKING, and its handler gives no drive command.
C3_OutsideDocksAtOnce ==
  (CycleEnd(LOOKING_FOR_BWF) /\ sensorOutside[LEFT])
  => /\ state = DOCKING
     /\ \A j \in 1..Len(HandlerPart(trace)) : HandlerPart(trace)[j] \notin DriveCmds

\* The boundary is found in a cycle in which the regular turn was due
C3_Witness ==
  /\ CycleEnd(LOOKING_FOR_BWF)
  /\ sensorOutside[LEFT]
  /\ state = DOCKING
  /\ now - time_at_turning > TURN_INTERVAL

\* ---------------------------------------------------------------------- C4
\* C4: a Docking cycle in which Battery.isBeingCharged() returns true ends in
\* CHARGING, and after that call the handler commands Mower.stop and nothing
\* else, whatever the collision counter is.
C4_ChargingStopsDocking ==
  (CycleEnd(DOCKING) /\ Has(trace, "Battery.isBeingCharged=TRUE"))
  => /\ state = CHARGING
     /\ LET i == First(trace, "Battery.isBeingCharged=TRUE")
        IN  SubSeq(trace, i + 1, Len(trace)) = << "Mower.stop" >>

\* Charging is found after a collision, with collisions counted
C4_Witness ==
  /\ CycleEnd(DOCKING)
  /\ Has(trace, "Mower.wheelsAreOverloaded=TRUE")
  /\ Has(trace, "Battery.isBeingCharged=TRUE")
  /\ collisionCount = 2

\* ---------------------------------------------------------------------- C5
\* C5 as stated: the collision counter is in 0..2 at the end of every
\* Docking cycle, and never reaches 4.
C5_CounterBelowLimit ==
  /\ CycleEnd(DOCKING) => collisionCount \in 0..2
  /\ collisionCount < 4

\* ---------------------------------------------------------------------- C6
\* C6 as stated: every execution of loop() runs checkIfFlipped and
\* checkIfLifted, before the handler if it runs one.
C6_ChecksEveryCycle ==
  LoopRan
  => /\ Has(trace, "checkIfFlipped")
     /\ Has(trace, "checkIfLifted")
     /\ HandlerPos(trace) # 0
          => /\ Last(trace, "checkIfFlipped") < HandlerPos(trace)
             /\ Last(trace, "checkIfLifted") < HandlerPos(trace)

\* C6 amended: an execution of loop() in which tryEnterSetupDebugMode returns
\* SETUP_DEBUG returns at once and runs neither check; every other execution,
\* in IDLE too, runs checkIfFlipped, then checkIfLifted, once each, and only
\* then the handler of its state.
C6_ChecksUnlessDebug ==
  LoopRan
  => IF trace[1] = DebugCall(SETUP_DEBUG)
     THEN trace = << DebugCall(SETUP_DEBUG) >> /\ handled = "none"
     ELSE /\ Count(trace, "checkIfFlipped") = 1
          /\ Count(trace, "checkIfLifted") = 1
          /\ First(trace, "checkIfFlipped") < First(trace, "checkIfLifted")
          /\ IF pc = "dispatch"
             THEN HandlerPos(trace) = 0
             ELSE /\ handled # "none"
                  /\ HandlerPos(trace) > First(trace, "checkIfLifted")

\* An Idle cycle: both checks, then the handler
C6_Witness ==
  /\ CycleEnd(IDLE)
  /\ Has(trace, "checkIfFlipped")
  /\ Has(trace, "checkIfLifted")
  /\ Has(trace, "delay(100)")

\* ---------------------------------------------------------------------- C7
\* What the handler of the current state decides, for each result of the
\* calls it makes: the state it leaves and the calls it makes.
SomeErrs == {NoErrs, [back |-> TRUE, turn1 |-> TRUE, turn2 |-> TRUE]}

HandlerDecision ==
  CASE state = MOWING ->
         [i \in BOOLEAN \X SomeErrs \X SomeErrs |->
            LET h == doMowing(i[1], TRUE, i[2], i[3]) IN << h.st, h.tr >>]
    [] state = DOCKING ->
         [i \in BOOLEAN \X BOOLEAN \X BOOLEAN |->
            LET h == doDocking(i[1], i[2], i[3]) IN << h.st, h.tr >>]
    [] state = LOOKING_FOR_BWF ->
         [i \in BOOLEAN \X BOOLEAN \X BOOLEAN |->
            LET h == doLookForBWF(i[1]) IN << h.st, h.tr >>]
    [] state = CHARGING ->
         [i \in BOOLEAN \X BOOLEAN \X BOOLEAN |->
            LET h == doCharging(build, i[1], i[2], i[3], signal) IN << h.st, h.tr >>]
    [] state = LAUNCHING ->
         [i \in BOOLEAN \X BOOLEAN \X BOOLEAN |->
            LET h == doLaunching(i[1]) IN << h.st, h.tr >>]
    [] OTHER -> << state >>

\* a boundary pulse between the poll and the handler
InterruptAfterPoll == pc = "dispatch" /\ pc' = "dispatch" /\ signal' # signal

\* C7 as stated: an interrupt that changes the decoded classification after
\* the poll changes no decision and no transition of the cycle's handler.
C7_InterruptChangesNothing ==
  [][InterruptAfterPoll => HandlerDecision' = HandlerDecision]_vars

\* C7 amended: doMowing, doDocking and doLookForBWF (and doLaunching, which
\* asks nothing) branch on the snapshot sensorOutside[] alone, so an
\* interrupt after the poll changes none of their decisions; doCharging
\* asks the sensor itself (Sensor.isInside() || Sensor.isOutside()), and an
\* interrupt after the poll can change whether it launches.
C7_SnapshotDecides ==
  [][(InterruptAfterPoll /\ state # CHARGING) => HandlerDecision' = HandlerDecision]_vars

\* The right coil was polled Outside, a pulse has since decoded Inside, and
\* the handler of LOOKING_FOR_BWF has run
C7_Witness ==
  /\ CycleEnd(LOOKING_FOR_BWF)
  /\ sensorOutside[RIGHT]
  /\ signal = "Inside"

\* ---------------------------------------------------------------------- C8
\* C8: doCharging leaves CHARGING for LAUNCHING iff the battery is fully
\* charged, a boundary signal is present and, in a build with the Clock,
\* Clock.timeToCut() returned true.
C8_LaunchIffGated ==
  CycleEnd(CHARGING)
  => (state = LAUNCHING
        <=> /\ Has(trace, "Battery.isFullyCharged=TRUE")
            /\ Has(trace, "Sensor.isInside||isOutside=TRUE")
            /\ build.clock => Has(trace, "Clock.timeToCut=TRUE"))

\* ---------------------------------------------------------------------- C9
LaunchSequences ==
  { << "Mower.runBackward", "delay(5000)", "Mower.stop", turn,
       "Compass.setNewTargetHeading", "Mower.runForward", "Battery.resetVoltage" >> :
    turn \in {"Mower.turnRight", "Mower.turnLeft"} }

\* C9: a cycle dispatched in LAUNCHING ends in MOWING after reverse, delay,
\* stop, one random turn without reverse (time_at_turning set, new target
\* heading), battery reset; and the cycle that follows it is not dispatched
\* in LAUNCHING.
C9_LaunchEndsInMowing ==
  /\ [](CycleEnd(LAUNCHING)
          => /\ state = MOWING
             /\ HandlerPart(trace) \in LaunchSequences
             /\ time_at_turning = now)
  /\ [][(CycleEnd(LAUNCHING) /\ pc' = "dispatch") => state' # LAUNCHING]_vars

C9_Witness ==
  /\ CycleEnd(LAUNCHING)
  /\ state = MOWING
  /\ Has(trace, "Battery.resetVoltage")

\* --------------------------------------------------------------------- C10
\* C10: when setup() returns the state is SETUP_DEBUG if the debug
\* collaborator returned it, else CHARGING if the battery is being charged,
\* else MOWING; and in CHARGING the cutter was commanded to stop.
C10_SetupState ==
  SetupDone
  => /\ state \in {CHARGING, MOWING, SETUP_DEBUG}
     /\ state = SETUP_DEBUG <=> Has(trace, DebugCall(SETUP_DEBUG))
     /\ state = CHARGING <=> Has(trace, "Battery.isBeingCharged=TRUE")
     /\ state = MOWING <=> Has(trace, "Battery.isBeingCharged=FALSE")
     /\ state = CHARGING => (trace[Len(trace)] = "Mower.stopCutter" /\ ~cutterOn)

C10_Witness ==
  /\ SetupDone
  /\ state = CHARGING
  /\ Has(trace, "Mower.stopCutter")

\* a state handler runs in this step
HandlerStep == pc = "dispatch" /\ pc' = "loop"

\* --------------------------------------------------------------------- C11
\* The time without a signal after which the boundary counts as lost.  No
\* figure is given for it; the 10 s after which doDocking gives the boundary
\* up are taken.
LostTimeout == OUTSIDE_TIMEOUT

\* C11: when a Mowing cycle ends and every poll of the last LostTimeout
\* milliseconds has found no signal on the left and on the right coil, the
\* state is LOOKING_FOR_BWF.
C11_BoundaryLostDetected ==
  (CycleEnd(MOWING) /\ lostSince # -1 /\ now - lostSince >= LostTimeout)
  => state = LOOKING_FOR_BWF

\* --------------------------------------------------------------------- C12
\* The handler that runs in this step compares millis() with
\* time_at_turning, with lastOutside, with lastContact
ComparesTurning ==
  \/ state = MOWING /\ Has(trace', "Battery.mustCharge=FALSE")
  \/ state = LOOKING_FOR_BWF /\ ~sensorOutside[LEFT]
ComparesOutside ==
  /\ state = DOCKING
  /\ trace'[Len(trace')] \in {"Mower.adjustMotorSpeeds", "Mower.turnLeft"}
ComparesContact == state = CHARGING

\* C12: time_at_turning is set by the handler of one state only; and a
\* timestamp a handler compares millis() with, if it was ever recorded (it is
\* not the value the variable was initialised with), was recorded by the
\* handler of its own state during the present visit to that state, or is
\* recorded by the handler itself before the comparison.
C12_TimersOwnedAndFresh ==
  [][HandlerStep
       => /\ (turningBy # "init" => turningBy' = turningBy)
          /\ ComparesTurning => \/ turningBy = "init"
                                \/ turningBy = state /\ time_at_turning >= enteredAt
          /\ ComparesOutside => \/ sensorOutside[LEFT]
                                \/ lastOutside = 0
                                \/ lastOutside >= enteredAt
          /\ ComparesContact => \/ Has(trace', "Battery.isBeingCharged=TRUE")
                                \/ lastContact = 0
                                \/ lastContact >= enteredAt]_vars

\* --------------------------------------------------------------------- C13
\* The commands that start the cutter or drive a wheel motor
MotionCmds ==
  {"Mower.startCutter", "Mower.runForward", "Mower.runForwardOverTime", "Mower.runBackward",
   "Mower.turnRight", "Mower.turnLeft", "Mower.randomTurn",
   "Mower.turnToReleaseRight=0", "Mower.turnToReleaseRight=err",
   "Mower.turnToReleaseLeft=0", "Mower.turnToReleaseLeft=err"}

\* C13: once ERROR_TILT has been flagged, no command that starts the cutter
\* or drives a wheel motor follows: none after the flag in the cycle that
\* flagged it, and none at all in the cycles after it.
C13_TiltIsFatal ==
  tilted
  => \A j \in (First(trace, "Error.flag(ERROR_TILT)") + 1)..Len(trace) :
       trace[j] \notin MotionCmds

\* --------------------------------------------------------------------- C14
\* C14: in a cycle in which Mower.isLifted() returns true, the calls that
\* follow are stopCutter, stop, runBackward, delay(2000) and a second
\* Mower.isLifted(); ERROR_LIFT is flagged iff that one returns true, and
\* the random turn is made only if it returns false.
C14_LiftRecheck ==
  (LoopRan /\ Has(trace, "Mower.isLifted=TRUE"))
  => LET i == First(trace, "Mower.isLifted=TRUE")
     IN  /\ Len(trace) >= i + 5
         /\ SubSeq(trace, i + 1, i + 4)
              = << "Mower.stopCutter", "Mower.stop", "Mower.runBackward", "delay(2000)" >>
         /\ trace[i + 5] \in {"Mower.isLifted=TRUE", "Mower.isLifted=FALSE"}
         /\ Has(trace, "Error.flag(ERROR_LIFT)") <=> trace[i + 5] = "Mower.isLifted=TRUE"
         /\ Has(trace, "Mower.randomTurn") => trace[i + 5] = "Mower.isLifted=FALSE"

\* --------------------------------------------------------------------- C15
\* the positions in tr of the release turns made for sensor i
Attempts(tr, i) ==
  {j \in 1..Len(tr) : tr[j] \in {ReleaseTurn(i) \o "=0", ReleaseTurn(i) \o "=err"}}

\* C15: in a Mowing cycle that does not leave for charging, doMowing turns
\* away from the wire once or twice for each sensor whose snapshot is
\* outside (turnToReleaseRight for the left one, turnToReleaseLeft for the
\* right one) and not at all for a sensor that is not; a second turn is made
\* only after a first that failed, with runBackward, delay(1000), stop in
\* between; the turn's error is flagged iff both turns failed; then the
\* target heading is renewed, and time_at_turning is the time at which the
\* handler returns.
C15_ReleaseTurnPolicy ==
  (CycleEnd(MOWING) /\ Has(trace, "Battery.mustCharge=FALSE"))
  => LET hp == HandlerPart(trace)
     IN  /\ \A i \in Coils :
              LET A  == Attempts(hp, i)
                  j1 == CHOOSE j \in A : \A k \in A : j <= k
                  j2 == CHOOSE j \in A : \A k \in A : j >= k
                  flagged == hp[j2 + 1] = "Error.flag(err)"
              IN  IF ~sensorOutside[i] THEN A = {}
                  ELSE /\ Cardinality(A) \in {1, 2}
                       /\ j2 # j1
                            => /\ hp[j1] = ReleaseTurn(i) \o "=err"
                               /\ SubSeq(hp, j1 + 1, j2 - 1)
                                    = << "Mower.runBackward", "delay(1000)", "Mower.stop" >>
                       /\ flagged <=> (j2 # j1 /\ hp[j2] = ReleaseTurn(i) \o "=err")
                       /\ hp[IF flagged THEN j2 + 2 ELSE j2 + 1] = "Compass.setNewTargetHeading"
         /\ (sensorOutside[LEFT] \/ sensorOutside[RIGHT]) => time_at_turning = now

\* Both sensors are outside: the left one is released at the second turn,
\* the right one fails twice and the error is flagged
C15_Witness ==
  /\ CycleEnd(MOWING)
  /\ sensorOutside[LEFT] /\ sensorOutside[RIGHT]
  /\ Has(trace, "Mower.turnToReleaseRight=err")
  /\ Has(trace, "Mower.turnToReleaseRight=0")
  /\ Count(trace, "Mower.turnToReleaseLeft=err") = 2
  /\ trace[Last(trace, "Mower.turnToReleaseLeft=err") + 1] = "Error.flag(err)"
  /\ time_at_turning = now

\* --------------------------------------------------------------------- C16
\* C16: when doLookForBWF has entered DOCKING (on a left sensor outside),
\* doDocking leaves it for LOOKING_FOR_BWF only when the state has been
\* DOCKING for more than 10 s; a cycle that follows the one that entered
\* DOCKING sooner than that does not fall back.
C16_FallbackOnlyAfterLoss ==
  [][(HandlerStep /\ state = DOCKING /\ enteredBy = LOOKING_FOR_BWF
        /\ state' = LOOKING_FOR_BWF)
       => now' - enteredAt > OUTSIDE_TIMEOUT]_vars

\* --------------------------------------------------------------------- C17
\* The re-dock nudge
Nudge == << "Mower.runBackward", "delay(500)", "Mower.runForward", "delay(2000)", "Mower.stop" >>

\* what the handler that runs in this step does: its call and the calls it makes
Handled == SubSeq(trace', Len(trace) + 1, Len(trace'))

C18_DebugPreempts ==
  [][/\ pc = "loop" => trace'[1] \in DebugCalls
     /\ LoopRan' => \A j \in 2..Len(trace') : trace'[j] \notin DebugCalls
     /\ (pc = "loop" /\ state' = SETUP_DEBUG)
          => /\ trace' = << DebugCall(SETUP_DEBUG) >>
             /\ pc' = "loop"
             /\ handled' = "none"
             /\ UNCHANGED << sensorOutside, time_at_turning, collisionCount,
                             lastCollision, lastAllOutsideCheck, lastOutside,
                             lastContact, lastDisplayUpdate, cutterOn >>]_vars

\* The debug collaborator takes the cycle after one that mowed with the
\* left sensor outside: the snapshot and the turn timer are still there
C18_Witness ==
  /\ pc = "loop"
  /\ trace = << DebugCall(SETUP_DEBUG) >>
  /\ state = SETUP_DEBUG
  /\ sensorOutside[LEFT]
  /\ time_at_turning > 0
  /\ cutterOn

\* --------------------------------------------------------------------- C19
\* The transitions of the handlers
Edges ==
  { << MOWING, LOOKING_FOR_BWF >>, << LOOKING_FOR_BWF, DOCKING >>,
    << DOCKING, CHARGING >>, << DOCKING, LOOKING_FOR_BWF >>,
    << CHARGING, LAUNCHING >>, << LAUNCHING, MOWING >> }

\* C19: at the top of loop() the state becomes what the debug collaborator
\* returns; after that, in the rest of the cycle, it stays or changes along
\* one of Edges.  (No edge ends in IDLE, none starts there, and the only one
\* that leaves CHARGING goes to LAUNCHING.)
C19_StateEdges ==
  [][/\ pc = "loop" => trace'[1] = DebugCall(state')
     /\ pc = "dispatch" => (state' = state \/ << state, state' >> \in Edges)]_vars

\* Docking has given the boundary up
C19_Witness ==
  /\ CycleEnd(DOCKING)
  /\ state = LOOKING_FOR_BWF

\* --------------------------------------------------------------------- C20
\* C20: a cycle dispatched in LOOKING_FOR_BWF, DOCKING, CHARGING, LAUNCHING
\* or IDLE commands no startCutter; the handlers of LOOKING_FOR_BWF, DOCKING
\* and CHARGING command stopCutter in every cycle, before any drive command
\* of theirs, and the cycle ends with the cutter off; and a Charging cycle
\* that stays in CHARGING ends with Mower.stop as its last wheel command.
C20_CutterOnlyInMowing ==
  /\ (pc = "loop" /\ handled \in {LOOKING_FOR_BWF, DOCKING, CHARGING, LAUNCHING, IDLE})
       => ~Has(trace, "Mower.startCutter")
  /\ (pc = "loop" /\ handled \in {LOOKING_FOR_BWF, DOCKING, CHARGING})
       => LET hp == HandlerPart(trace)
          IN  /\ Has(hp, "Mower.stopCutter")
              /\ \A j \in 1..First(hp, "Mower.stopCutter") : hp[j] \notin DriveCmds
              /\ ~cutterOn
  /\ (CycleEnd(CHARGING) /\ state = CHARGING)
       => \E j \in 1..Len(trace) :
            /\ trace[j] = "Mower.stop"
            /\ \A k \in (j + 1)..Len(trace) : trace[k] \notin WheelCmds

\* A Charging cycle that found the cutter running and made the nudge
C20_Witness ==
  /\ CycleEnd(CHARGING)
  /\ state = CHARGING
  /\ Has(HandlerPart(trace), "Mower.runBackward")
  /\ Has(trace, "tryEnterSetupDebugMode=CHARGING")
  /\ lastContact = now
  /\ ~cutterOn

====
